---- MODULE Spec2Model ----
(***************************************************************************)
(* scripts/web1_uploader/upload_to_drive.py: a one-shot script that, for   *)
(* each path of FILES_TO_UPLOAD, looks the base name up in one Google      *)
(* Drive folder and then updates the object found or creates a new one.    *)
(*                                                                         *)
(* The script is the process; Drive, the environment variable, the         *)
(* credential file and the local files are its environment.  One process   *)
(* invocation is a "run"; the model lets the script be invoked again after *)
(* it has exited, against the Drive contents the earlier runs left behind. *)
(***************************************************************************)
EXTENDS Integers, Sequences, FiniteSets, TLC

\* ------------------------------------------------------------------ bounds
\* Number of invocations of the script that are explored.
MaxRuns == 2
\* Number of objects Drive holds before the first invocation.
MaxInitObjs == 2

\* ------------------------------------------------------------ Python values
\* Optional values: None is the empty tuple, a value x is <<x>>.
None == <<>>
Some(x) == <<x>>

\* Faulty variant of Falsy: `if FOLDER_ID is None`, which lets "" through.
FalsyOnlyNone(v) == v = None

\* `not FOLDER_ID` (line 80): None and the empty string are falsy.
Falsy(v) == v = None \/ v = Some("")

\* ------------------------------------------------------- program constants
\* Faulty variant of FILES_TO_UPLOAD: the two paths in the other order.
FILES_SWAPPED ==
    << <<"opt", "deploy_dashboard", "data", "obj_click_log.csv">>,
       <<"opt", "deploy_dashboard", "data", "scandata.csv">> >>

\* Lines 17-20.  A path is the tuple of its components.
FILES_TO_UPLOAD ==
    << <<"opt", "deploy_dashboard", "data", "scandata.csv">>,
       <<"opt", "deploy_dashboard", "data", "obj_click_log.csv">> >>

\* Faulty variant of basename: the directory part instead of the file part.
basenameFirst(filepath) == filepath[1]

\* os.path.basename (line 51): the last component of the path.
basename(filepath) == filepath[Len(filepath)]

Tasks == 1..Len(FILES_TO_UPLOAD)

\* Base names that objects of the remote store may carry.
Names == {basename(FILES_TO_UPLOAD[t]) : t \in Tasks}

\* Values of the environment variable GOOGLE_DRIVE_FOLDER_ID (line 9):
\* unset, set to the empty string, or set to a folder identifier.
FolderEnv == {None, Some(""), Some("F1")}

\* Folders in which remote objects may live.
Folders == {"F1", "F2"}

\* credentials.json (lines 27-34): absent; present but rejected by
\* from_service_account_file / build; present and accepted.
CredStates == {"missing", "invalid", "valid"}

\* A local path (lines 47 and 56): os.path.exists is False; the path exists
\* and MediaFileUpload can open it; the path exists (os.path.exists is True)
\* but MediaFileUpload's open() raises (a directory, no read permission,
\* or the file removed after the existence test).
LocalStates == {"missing", "ok", "unopenable"}

\* os.path.exists(filepath) (line 47)
os_path_exists(st) == st # "missing"

\* ------------------------------------------------------------ remote store
\* A Drive object.  Its identifier is its index in the sequence drive.
\* visible: the object was created by this service account; SCOPES
\* (line 22) is drive.file, under which files().list returns, and
\* files().update reaches, only such objects.
\* rev counts the content uploads the object has received.
ObjSpace ==
    [name : Names, parent : Folders, trashed : BOOLEAN, visible : BOOLEAN,
     rev : {0}]

\* The clauses by which object o escapes the query of line 38 for its own
\* name in folder F1: another folder, trashed, not listed under SCOPES.
Misses(o) ==
    (IF o.parent = "F1" THEN {} ELSE {"parent"})
    \cup (IF o.trashed THEN {"trashed"} ELSE {})
    \cup (IF o.visible THEN {} ELSE {"scope"})

ObjCode(o) ==
    (IF o.name = basename(FILES_TO_UPLOAD[1]) THEN 0 ELSE 1)
    + (IF o.parent = "F1" THEN 0 ELSE 2)
    + (IF o.trashed THEN 4 ELSE 0)
    + (IF o.visible THEN 0 ELSE 8)

\* The remote store before the first run: up to MaxInitObjs objects, each a
\* match of the query for its name or a miss by exactly one clause.
\* Identifiers are opaque and the order of a list response is not fixed by
\* them, so the objects are enumerated in one canonical order.
InitDrives ==
    { d \in UNION {[1..k -> ObjSpace] : k \in 0..MaxInitObjs} :
        /\ \A j \in 1..Len(d) : Cardinality(Misses(d[j])) <= 1
        /\ \A j \in 1..(Len(d) - 1) : ObjCode(d[j]) <= ObjCode(d[j + 1]) }

\* Faulty variant of Query: the clause `trashed = false` left out.
QueryNoTrashed(d, filename, folder_id) ==
    { id \in DOMAIN d :
        /\ d[id].name = filename
        /\ d[id].parent = folder_id
        /\ d[id].visible }

\* The query of line 38, evaluated by Drive under SCOPES (line 22):
\* name = filename, folder_id in parents, trashed = false.
Query(d, filename, folder_id) ==
    { id \in DOMAIN d :
        /\ d[id].name = filename
        /\ d[id].parent = folder_id
        /\ ~d[id].trashed
        /\ d[id].visible }

\* The possible orders of a list response holding the objects of S.
Responses(S) ==
    { f \in [1..Cardinality(S) -> S] :
        \A a, b \in 1..Cardinality(S) : a # b => f[a] # f[b] }

\* Faulty variants of FirstId: the last identifier of the response; and a
\* lookup of a key the response never has, so that nothing is ever found.
FirstIdLast(files) == IF files # <<>> THEN Some(files[Len(files)]) ELSE None
FirstIdNone(files) == None

\* Lines 40-43: the first identifier of the response, or None.
FirstId(files) == IF files # <<>> THEN Some(files[1]) ELSE None

\* Faulty variant of file_metadata: 'parents' left out, so that Drive puts
\* the object into the account's root folder.
file_metadata_noparent(filename, folder_id) ==
    [name |-> filename, parent |-> "root"]

\* Lines 68-71: the metadata of a created object.
file_metadata(filename, folder_id) == [name |-> filename, parent |-> folder_id]

\* Outcomes of service.files().<op>().execute(): it returns, or it raises
\* (HttpError, a transport error).  A raising write may or may not have
\* been applied by the server before the error reached the client.
ReadOutcomes == {"ok", "error"}
WriteOutcomes == {"ok", "error", "error_applied"}

\* ------------------------------------------------------------------- state
VARIABLES
    FOLDER_ID,   \* line 9: value read from the environment
    credFile,    \* state of credentials.json
    localFile,   \* state of each path of FILES_TO_UPLOAD during this run
    drive,       \* the remote store
    drive0,      \* the remote store when this run started
    run,         \* number of this invocation
    pc,          \* position of the process
    i,           \* index of the File task of the for loop (line 87)
    file_id,     \* line 54: result of find_file_in_folder
    exitCode,    \* None while running, else Some(exit code)
    calls,       \* remote calls issued by this run, in order
    prevUploaded \* tasks whose create or update returned in the previous run

vars == <<FOLDER_ID, credFile, localFile, drive, drive0, run, pc, i, file_id,
          exitCode, calls, prevUploaded>>

\* A record of one remote call.
\* files is the response of a list call, result what find_file_in_folder
\* returned for it.
ListCall(t, filename, folder_id, outcome, files, result) ==
    [task |-> t, op |-> "list", name |-> filename, parent |-> folder_id,
     fileId |-> 0, ok |-> (outcome = "ok"), files |-> files,
     result |-> result]
UpdateCall(t, id, outcome) ==
    [task |-> t, op |-> "update", name |-> "", parent |-> "",
     fileId |-> id, ok |-> (outcome = "ok"), files |-> <<>>,
     result |-> None]
CreateCall(t, meta, outcome) ==
    [task |-> t, op |-> "create", name |-> meta.name, parent |-> meta.parent,
     fileId |-> 0, ok |-> (outcome = "ok"), files |-> <<>>,
     result |-> None]

\* The tasks for which a create or update call of the log returned.
Uploaded(log) ==
    { log[k].task : k \in { j \in DOMAIN log :
                              log[j].op \in {"create", "update"} /\ log[j].ok } }

\* sys.exit(code), an uncaught exception (code 1), or falling off main (0).
Exit(code) == pc' = "exited" /\ exitCode' = Some(code)

Init ==
    /\ FOLDER_ID \in FolderEnv
    /\ credFile \in CredStates
    /\ localFile \in [Tasks -> LocalStates]
    /\ drive \in InitDrives
    /\ drive0 = drive
    /\ run = 1
    /\ pc = "main"
    /\ i = 0
    /\ file_id = None
    /\ exitCode = None
    /\ calls = <<>>
    /\ prevUploaded = {}

\* Lines 80-84: the folder identifier must be set.
MainCheckFolder ==
    /\ pc = "main"
    /\ IF Falsy(FOLDER_ID)
         THEN Exit(1)
         ELSE pc' = "authenticate" /\ UNCHANGED exitCode
    /\ UNCHANGED <<FOLDER_ID, credFile, localFile, drive, drive0, run, i,
                   file_id, calls, prevUploaded>>

\* Faulty variant of Authenticate: the message of line 31 is printed but
\* sys.exit is not called.
AuthenticateNoExit ==
    /\ pc = "authenticate"
    /\ IF credFile # "invalid"
         THEN pc' = "loop" /\ i' = 1 /\ UNCHANGED exitCode
         ELSE Exit(1) /\ UNCHANGED i
    /\ UNCHANGED <<FOLDER_ID, credFile, localFile, drive, drive0, run,
                   file_id, calls, prevUploaded>>

\* Lines 24-34 and 85: authenticate().
Authenticate ==
    /\ pc = "authenticate"
    /\ IF credFile = "valid"
         THEN pc' = "loop" /\ i' = 1 /\ UNCHANGED exitCode
         ELSE Exit(1) /\ UNCHANGED i
    /\ UNCHANGED <<FOLDER_ID, credFile, localFile, drive, drive0, run,
                   file_id, calls, prevUploaded>>

\* Faulty variant of UploadFileEnter: a missing path leaves the loop
\* (`break`) instead of returning from upload_file.
UploadFileEnterBreak ==
    /\ pc = "loop"
    /\ i <= Len(FILES_TO_UPLOAD)
    /\ IF os_path_exists(localFile[i])
         THEN pc' = "find" /\ UNCHANGED i
         ELSE i' = Len(FILES_TO_UPLOAD) + 1 /\ UNCHANGED pc
    /\ UNCHANGED <<FOLDER_ID, credFile, localFile, drive, drive0, run,
                   file_id, exitCode, calls, prevUploaded>>

\* Lines 87-88 and 47-52: the next path of the loop enters upload_file,
\* which returns at once when the path does not exist.
UploadFileEnter ==
    /\ pc = "loop"
    /\ i <= Len(FILES_TO_UPLOAD)
    /\ IF os_path_exists(localFile[i])
         THEN pc' = "find" /\ UNCHANGED i
         ELSE i' = i + 1 /\ UNCHANGED pc
    /\ UNCHANGED <<FOLDER_ID, credFile, localFile, drive, drive0, run,
                   file_id, exitCode, calls, prevUploaded>>

\* Faulty variant of FindFileInFolder: the error of the list call is caught
\* and reported as "not found".
FindFileInFolderSwallow ==
    /\ pc = "find"
    /\ LET filename == basename(FILES_TO_UPLOAD[i])
           folder_id == FOLDER_ID[1]
       IN \E outcome \in ReadOutcomes :
            \E files \in IF outcome = "ok"
                           THEN Responses(Query(drive, filename, folder_id))
                           ELSE {<<>>} :
              /\ calls' = Append(calls,
                    ListCall(i, filename, folder_id, outcome, files,
                             FirstId(files)))
              /\ file_id' = FirstId(files)
              /\ pc' = "media"
    /\ UNCHANGED <<FOLDER_ID, credFile, localFile, drive, drive0, run, i,
                   exitCode, prevUploaded>>

\* Lines 36-43 and 54: find_file_in_folder(service, filename, FOLDER_ID).
FindFileInFolder ==
    /\ pc = "find"
    /\ LET filename == basename(FILES_TO_UPLOAD[i])
           folder_id == FOLDER_ID[1]
       IN \E outcome \in ReadOutcomes :
            IF outcome = "ok"
              THEN \E files \in Responses(Query(drive, filename, folder_id)) :
                     /\ calls' = Append(calls,
                           ListCall(i, filename, folder_id, outcome, files,
                                    FirstId(files)))
                     /\ file_id' = FirstId(files)
                     /\ pc' = "media"
                     /\ UNCHANGED exitCode
              ELSE /\ calls' = Append(calls,
                           ListCall(i, filename, folder_id, outcome, <<>>,
                                    None))
                   /\ Exit(1)
                   /\ UNCHANGED file_id
    /\ UNCHANGED <<FOLDER_ID, credFile, localFile, drive, drive0, run, i,
                   prevUploaded>>

\* Line 56: MediaFileUpload(filepath, mimetype='text/csv') opens the file.
OpenMedia ==
    /\ pc = "media"
    /\ IF localFile[i] = "ok"
         THEN pc' = "upload" /\ UNCHANGED exitCode
         ELSE Exit(1)
    /\ UNCHANGED <<FOLDER_ID, credFile, localFile, drive, drive0, run, i,
                   file_id, calls, prevUploaded>>

\* Drive after the content of object id has been replaced.
Updated(d, id) == [d EXCEPT ![id].rev = @ + 1]

\* Drive after an object with the given metadata has been created by this
\* service account: the remote system assigns a new identifier.
Created(d, meta) ==
    Append(d, [name |-> meta.name, parent |-> meta.parent, trashed |-> FALSE,
               visible |-> TRUE, rev |-> 1])

\* Lines 58-65: an identifier was found; update its content.
UploadUpdate ==
    /\ pc = "upload"
    /\ file_id # None
    /\ \E outcome \in WriteOutcomes :
         /\ calls' = Append(calls, UpdateCall(i, file_id[1], outcome))
         /\ drive' = IF outcome = "error" THEN drive
                     ELSE Updated(drive, file_id[1])
         /\ IF outcome = "ok"
              THEN pc' = "loop" /\ i' = i + 1 /\ UNCHANGED exitCode
              ELSE Exit(1) /\ UNCHANGED i
    /\ UNCHANGED <<FOLDER_ID, credFile, localFile, drive0, run, file_id,
                   prevUploaded>>

\* Lines 66-77: nothing was found; create the object.
UploadCreate ==
    /\ pc = "upload"
    /\ file_id = None
    /\ LET meta == file_metadata(basename(FILES_TO_UPLOAD[i]), FOLDER_ID[1])
       IN \E outcome \in WriteOutcomes :
            /\ calls' = Append(calls, CreateCall(i, meta, outcome))
            /\ drive' = IF outcome = "error" THEN drive
                        ELSE Created(drive, meta)
            /\ IF outcome = "ok"
                 THEN pc' = "loop" /\ i' = i + 1 /\ UNCHANGED exitCode
                 ELSE Exit(1) /\ UNCHANGED i
    /\ UNCHANGED <<FOLDER_ID, credFile, localFile, drive0, run, file_id,
                   prevUploaded>>

\* Line 90: the loop is exhausted; main returns and the process exits 0.
MainDone ==
    /\ pc = "loop"
    /\ i > Len(FILES_TO_UPLOAD)
    /\ Exit(0)
    /\ UNCHANGED <<FOLDER_ID, credFile, localFile, drive, drive0, run, i,
                   file_id, calls, prevUploaded>>

\* Lines 92-93 (and 9): the script is invoked again.  The local files may
\* have appeared, vanished or changed permissions in between.
Invoke ==
    /\ pc = "exited"
    /\ run < MaxRuns
    /\ run' = run + 1
    /\ prevUploaded' = Uploaded(calls)
    /\ localFile' \in [Tasks -> LocalStates]
    /\ drive0' = drive
    /\ pc' = "main"
    /\ i' = 0
    /\ file_id' = None
    /\ exitCode' = None
    /\ calls' = <<>>
    /\ UNCHANGED <<FOLDER_ID, credFile, drive>>

Next ==
    \/ MainCheckFolder
    \/ Authenticate
    \/ UploadFileEnter
    \/ FindFileInFolder
    \/ OpenMedia
    \/ UploadUpdate
    \/ UploadCreate
    \/ MainDone
    \/ Invoke

Spec == Init /\ [][Next]_vars

\* ------------------------------------------------------------ properties
\* The base names the two File tasks are stated to carry, in list order.
BaseNames == <<"scandata.csv", "obj_click_log.csv">>

\* Positions of the log holding a call of kind op made for task t.
CallsOf(t, op) ==
    {k \in DOMAIN calls : calls[k].task = t /\ calls[k].op = op}

\* The run is past task t: it went on to a later task or it has ended.
TaskOver(t) == pc = "exited" \/ i > t

\* Non-trashed objects named filename in folder_id, visible or not.
LiveInFolder(d, filename, folder_id) ==
    { id \in DOMAIN d :
        d[id].name = filename /\ d[id].parent = folder_id /\ ~d[id].trashed }

\* C1: in a run whose folder identifier is unset or empty, or whose
\* credential file does not exist, no remote call is ever issued, the remote
\* store is not changed, no File task is entered, and the process can only
\* end with a non-zero exit code.
C1_PreflightNoRemoteCall ==
    (FOLDER_ID \in {None, Some("")} \/ credFile = "missing") =>
        /\ calls = <<>>
        /\ drive = drive0
        /\ pc \in {"main", "authenticate", "exited"}
        /\ i = 0
        /\ (pc = "exited" => exitCode # None /\ exitCode[1] # 0)

\* A run with the folder set and no credential file has ended.
C1_Witness ==
    /\ pc = "exited"
    /\ FOLDER_ID = Some("F1")
    /\ credFile = "missing"
    /\ exitCode = Some(1)

\* C2: a File task whose path does not exist issues no remote call at all,
\* the run never ends on it, and when the run got as far as that task the
\* task after it, if its path exists, has had its list call.
C2_MissingFileSkipped ==
    \A t \in Tasks :
        localFile[t] = "missing" =>
            /\ \A k \in DOMAIN calls : calls[k].task # t
            /\ (pc = "exited" /\ i >= t) =>
                  /\ i > t
                  /\ (t + 1 \in Tasks /\ localFile[t + 1] # "missing") =>
                        CallsOf(t + 1, "list") # {}

\* The first path is missing, the second was created or updated, exit 0.
C2_Witness ==
    /\ pc = "exited"
    /\ exitCode = Some(0)
    /\ localFile[1] = "missing"
    /\ localFile[2] = "ok"
    /\ Len(calls) = 2
    /\ calls[2].task = 2
    /\ calls[2].op \in {"create", "update"}
    /\ calls[2].ok

\* Routing of task t after its list call, for the tasks whose local state
\* is in states.
Routing(states) ==
    \A t \in Tasks :
        LET creates == CallsOf(t, "create")
            updates == CallsOf(t, "update")
        IN /\ creates = {} \/ updates = {}
           /\ localFile[t] \in states =>
                \A k \in CallsOf(t, "list") :
                    calls[k].ok =>
                        IF calls[k].result = None
                          THEN /\ updates = {}
                               /\ Cardinality(creates) <= 1
                               /\ \A j \in creates :
                                    /\ calls[j].name = BaseNames[t]
                                    /\ calls[j].parent = FOLDER_ID[1]
                               /\ TaskOver(t) => Cardinality(creates) = 1
                          ELSE /\ creates = {}
                               /\ Cardinality(updates) <= 1
                               /\ \A j \in updates :
                                    calls[j].fileId = calls[k].result[1]
                               /\ TaskOver(t) => Cardinality(updates) = 1

\* C3 as claimed: for every File task whose local path exists, "not found"
\* leads to exactly one create (name = base name, parent = FOLDER_ID) and no
\* update, an identifier X to exactly one update of X and no create; no task
\* issues both.
C3_RoutingWhenExists == Routing({"ok", "unopenable"})

\* C3 as amended: the same for every File task whose local path exists and
\* can be opened by MediaFileUpload.
C3_RoutingWhenOpenable == Routing({"ok"})

\* Both branches were taken in one run: a create and an update of the
\* identifier the Locator returned.
C3_Witness ==
    /\ pc = "exited"
    /\ localFile = [t \in Tasks |-> "ok"]
    /\ \E t \in Tasks : \E j \in CallsOf(t, "create") :
          calls[j].ok /\ calls[j].name = BaseNames[t]
    /\ \E t \in Tasks : \E j \in CallsOf(t, "update") :
          calls[j].ok /\ j > 1 /\ calls[j - 1].result = Some(calls[j].fileId)

C5_RemoteErrorAborts ==
    \A k \in DOMAIN calls :
        ~calls[k].ok =>
            /\ k = Len(calls)
            /\ Cardinality(CallsOf(calls[k].task, calls[k].op)) = 1
            /\ pc = "exited"
            /\ exitCode = Some(1)
            /\ i = calls[k].task

\* The list call of the first task raised while the second path exists:
\* the run ended with that single call.
C5_Witness ==
    /\ pc = "exited"
    /\ localFile[2] = "ok"
    /\ Len(calls) = 1
    /\ calls[1].op = "list"
    /\ ~calls[1].ok

\* C6: a list response holds only non-trashed objects of the queried name
\* in the configured folder; an identifier returned by the Locator, and the
\* target of every update, is such an object; and a task whose name had no
\* such object when the run started is never routed to update but, once its
\* upload has been decided, to create.
C6_NameMatchScoping ==
    /\ \A k \in UNION {CallsOf(t, "list") : t \in Tasks} :
          /\ \A n \in DOMAIN calls[k].files :
                calls[k].files[n] \in
                    LiveInFolder(drive, BaseNames[calls[k].task], FOLDER_ID[1])
          /\ calls[k].result # None =>
                calls[k].result[1] \in
                    LiveInFolder(drive, BaseNames[calls[k].task], FOLDER_ID[1])
    /\ \A t \in Tasks :
          /\ \A j \in CallsOf(t, "update") :
                calls[j].fileId \in
                    LiveInFolder(drive0, BaseNames[t], FOLDER_ID[1])
          /\ (/\ pc = "upload"
              /\ i = t
              /\ LiveInFolder(drive0, BaseNames[t], FOLDER_ID[1]) = {})
                => file_id = None

\* The only objects named like the first task's file were trashed or in
\* another folder, and the task created a new object.
C6_Witness ==
    /\ FOLDER_ID = Some("F1")
    /\ \E id \in DOMAIN drive0 :
          /\ drive0[id].name = BaseNames[1]
          /\ drive0[id].visible
          /\ drive0[id].trashed
          /\ drive0[id].parent = FOLDER_ID[1]
    /\ \E id \in DOMAIN drive0 :
          /\ drive0[id].name = BaseNames[1]
          /\ drive0[id].visible
          /\ ~drive0[id].trashed
          /\ drive0[id].parent # FOLDER_ID[1]
    /\ \E j \in CallsOf(1, "create") : calls[j].ok

\* No remote call of the log raised.
NoRemoteError == \A k \in DOMAIN calls : calls[k].ok

\* C7 as claimed: the run ends with exit code 0 exactly when the folder
\* identifier is set and non-empty, the credential file exists and no remote
\* call raised, whichever local files are missing.
C7_ExitZeroIffPreflightAndNoRemoteError ==
    pc = "exited" =>
        (exitCode = Some(0) <=>
            /\ FOLDER_ID \notin {None, Some("")}
            /\ credFile # "missing"
            /\ NoRemoteError)

\* C7 as amended: the run ends with exit code 0 exactly when the folder
\* identifier is set and non-empty, the credential file exists and is
\* accepted by authenticate, no remote call raised, and every local path
\* that exists can be opened by MediaFileUpload; missing local files do not
\* matter.
C7_ExitZeroIffNothingRaised ==
    pc = "exited" =>
        (exitCode = Some(0) <=>
            /\ FOLDER_ID \notin {None, Some("")}
            /\ credFile = "valid"
            /\ NoRemoteError
            /\ \A t \in Tasks : localFile[t] # "unopenable")

\* A run in which every local file was skipped has ended with exit code 0.
C7_Witness ==
    /\ pc = "exited"
    /\ exitCode = Some(0)
    /\ localFile = [t \in Tasks |-> "missing"]
    /\ calls = <<>>

\* C8: find_file_in_folder returns the first identifier of the list
\* response, or None for an empty response; a response is never an error,
\* however many objects it holds; every update follows the list call of its
\* task and targets the identifier that call returned; and an object of the
\* remote store changes during a run only as the target of an update.
C8_FirstMatchUpdated ==
    /\ \A k \in DOMAIN calls :
          (calls[k].op = "list" /\ calls[k].ok) =>
              /\ calls[k].result =
                    IF Len(calls[k].files) = 0 THEN None
                    ELSE Some(calls[k].files[1])
              /\ (k = Len(calls) /\ pc = "exited") =>
                    localFile[calls[k].task] = "unopenable"
              /\ (k = Len(calls) /\ pc # "exited") =>
                    pc \in {"media", "upload"} /\ file_id = calls[k].result
    /\ \A j \in DOMAIN calls :
          calls[j].op = "update" =>
              /\ j > 1
              /\ calls[j - 1].op = "list"
              /\ calls[j - 1].task = calls[j].task
              /\ calls[j - 1].files # <<>>
              /\ calls[j].fileId = calls[j - 1].files[1]
    /\ \A id \in DOMAIN drive0 :
          drive[id] # drive0[id] =>
              \E j \in DOMAIN calls :
                  calls[j].op = "update" /\ calls[j].fileId = id

\* Two objects matched; the one listed first was updated, the other one is
\* as it was, and the run completed.
C8_Witness ==
    /\ pc = "exited"
    /\ exitCode = Some(0)
    /\ \E j \in DOMAIN calls :
          /\ calls[j].op = "update"
          /\ calls[j].ok
          /\ Len(calls[j - 1].files) = 2
          /\ calls[j].fileId = calls[j - 1].files[1]
          /\ calls[j - 1].files[1] > calls[j - 1].files[2]
          /\ drive[calls[j - 1].files[2]] = drive0[calls[j - 1].files[2]]
          /\ drive[calls[j].fileId] # drive0[calls[j].fileId]

\* C9: the remote calls of a run are issued in the order of the File tasks,
\* scandata.csv before obj_click_log.csv; a task issues at most one list
\* call and at most one create or update, and its create or update comes
\* directly after its own list call, which has returned.
C9_SequentialOrder ==
    /\ \A j, k \in DOMAIN calls :
          j < k =>
              /\ calls[j].task <= calls[k].task
              /\ ~(/\ calls[j].op = "list"
                   /\ calls[k].op = "list"
                   /\ calls[j].name = "obj_click_log.csv"
                   /\ calls[k].name = "scandata.csv")
    /\ \A t \in Tasks :
          /\ Cardinality(CallsOf(t, "list")) <= 1
          /\ Cardinality(CallsOf(t, "create") \cup CallsOf(t, "update")) <= 1
    /\ \A k \in DOMAIN calls :
          IF calls[k].op = "list"
            THEN calls[k].name = BaseNames[calls[k].task]
            ELSE /\ k > 1
                 /\ calls[k - 1].op = "list"
                 /\ calls[k - 1].ok
                 /\ calls[k - 1].task = calls[k].task

\* Both tasks issued their list call and their create or update.
C9_Witness ==
    /\ pc = "exited"
    /\ exitCode = Some(0)
    /\ Len(calls) = 4
    /\ calls[1].name = "scandata.csv"
    /\ calls[3].name = "obj_click_log.csv"

\* For each synced base name, the configured folder holds at most one
\* non-trashed object.
AtMostOneLive(d) ==
    \A t \in Tasks :
        Cardinality(LiveInFolder(d, BaseNames[t], FOLDER_ID[1])) <= 1

\* The step appends a create call to the log.
CreateIssued ==
    /\ Len(calls') = Len(calls) + 1
    /\ calls'[Len(calls')].op = "create"

\* Non-trashed objects named filename in folder_id that the service
\* account created, the ones its drive.file scope lets it list.
OwnLiveInFolder(d, filename, folder_id) ==
    { id \in LiveInFolder(d, filename, folder_id) : d[id].visible }

\* For each synced base name, the configured folder holds at most one
\* non-trashed object created by the service account.
AtMostOneOwnLive(d) ==
    \A t \in Tasks :
        Cardinality(OwnLiveInFolder(d, BaseNames[t], FOLDER_ID[1])) <= 1

\* C10 as claimed: no step of any run takes the folder from at most one
\* non-trashed object per synced base name to more than one, and a create is
\* issued for a name only when the folder has no non-trashed object of that
\* name.
C10_NoDuplicateInFolder ==
    [][ FOLDER_ID \notin {None, Some("")} =>
          /\ AtMostOneLive(drive) => AtMostOneLive(drive')
          /\ CreateIssued =>
                LiveInFolder(drive, calls'[Len(calls')].name,
                             FOLDER_ID[1]) = {} ]_vars

\* C10 as amended: the same, counting the non-trashed objects that the
\* service account itself created (the ones visible under the drive.file
\* scope); objects of the folder that it did not create are not seen.
C10_NoDuplicateOwnObject ==
    [][ FOLDER_ID \notin {None, Some("")} =>
          /\ AtMostOneOwnLive(drive) => AtMostOneOwnLive(drive')
          /\ CreateIssued =>
                /\ calls'[Len(calls')].name \in
                      {BaseNames[t] : t \in Tasks}
                /\ calls'[Len(calls')].parent = FOLDER_ID[1]
                /\ OwnLiveInFolder(drive, calls'[Len(calls')].name,
                                   FOLDER_ID[1]) = {} ]_vars

\* After a run that created an object, a later run has created the other
\* one, and the folder holds one object of the account per name.
C10_Witness ==
    /\ run = 2
    /\ pc = "exited"
    /\ prevUploaded # {}
    /\ Len(drive0) = Len(drive) - 1
    /\ \E t \in Tasks : CallsOf(t, "create") # {}
    /\ \A t \in Tasks :
          Cardinality(OwnLiveInFolder(drive, BaseNames[t], FOLDER_ID[1])) = 1
====
